---- MODULE Spec2Model ----
(***************************************************************************)
(* The three scripts of the repository that process extracted records:     *)
(*   "F"  the rate dashboard built on fetch_exchange_rates                 *)
(*        (src/Lesson7_1/Test.py),                                         *)
(*   "G"  the rate dashboard built on get_rates (src/Lesson7_1/main.py),   *)
(*   "L"  the print loop of src/Lesson7/Lesson7_3.py.                      *)
(* A dashboard is a Streamlit script: every user interaction runs the      *)
(* whole script again, and the function under @st.cache_data(ttl=600) is   *)
(* served from the framework's cache while its entry is fresh.             *)
(*                                                                         *)
(* Texts are sequences of one-character strings.  Numbers are exact        *)
(* decimals: a parsed rate is mant / 10^dec, a displayed result is an      *)
(* integer count of units of 10^-prec.                                     *)
(***************************************************************************)
EXTENDS Integers, Sequences, FiniteSets, TLC

VARIABLES app, page, cache, now, view, idx, printed, pcL

vars == <<app, page, cache, now, view, idx, printed, pcL>>

(***************************************************************************)
(* Bounds of the model.                                                    *)
(***************************************************************************)
MaxRows == 2       \* rows on the fetched rate page
MaxCards == 2      \* product cards on the Lesson7_3 page
MaxTicks == 3      \* clock advances (SpecCache)
TickStep == 300    \* seconds per clock advance

(***************************************************************************)
(* Texts                                                                   *)
(***************************************************************************)
NaN == <<"NaN">>           \* a key the extraction left out (NaN in the DataFrame)
PAUSED == <<"PAUSED">>     \* the four-character text '暫停交易'
DASH == <<"-">>
EMPTY == <<>>
T_31_00 == <<"3", "1", ".", "0", "0">>
T_31_50 == <<"3", "1", ".", "5", "0">>
T_30_50 == <<"3", "0", ".", "5", "0">>
T_31_90 == <<"3", "1", ".", "9", "0">>
T_1234_5 == <<"1", ",", "2", "3", "4", ".", "5">>
T_ZERO == <<"0">>
T_SPDASH == <<" ", "-", " ">>

Digits == <<"0", "1", "2", "3", "4", "5", "6", "7", "8", "9">>

IsDigit(c) == \E d \in 1..10 : Digits[d] = c

DigitVal(c) == (CHOOSE d \in 1..10 : Digits[d] = c) - 1

RECURSIVE Pow10(_)
Pow10(n) == IF n = 0 THEN 1 ELSE 10 * Pow10(n - 1)

\* str.strip(): leading and trailing blanks removed
RECURSIVE LStrip(_)
LStrip(s) == IF s # <<>> /\ s[1] = " " THEN LStrip(Tail(s)) ELSE s

RECURSIVE RStrip(_)
RStrip(s) ==
    IF s # <<>> /\ s[Len(s)] = " " THEN RStrip(SubSeq(s, 1, Len(s) - 1)) ELSE s

Strip(s) == RStrip(LStrip(s))

\* str.replace(",", "")
RemoveCommas(s) == SelectSeq(s, LAMBDA c : c # ",")

\* the integer written by a sequence of digits
RECURSIVE DigitsValue(_)
DigitsValue(s) ==
    IF s = <<>> THEN 0
    ELSE 10 * DigitsValue(SubSeq(s, 1, Len(s) - 1)) + DigitVal(s[Len(s)])

\* float(text): blanks around it ignored, an optional sign, digits with at most
\* one point and at least one digit; anything else raises ValueError (ok = FALSE)
ParseFloat(s) ==
    LET t == Strip(s)
        signed == t # <<>> /\ t[1] \in {"-", "+"}
        u == IF signed THEN Tail(t) ELSE t
        points == {i \in 1..Len(u) : u[i] = "."}
        digs == SelectSeq(u, IsDigit)
        ok == /\ \A i \in 1..Len(u) : IsDigit(u[i]) \/ u[i] = "."
              /\ Cardinality(points) <= 1
              /\ digs # <<>>
        p == IF points = {} THEN Len(u) ELSE CHOOSE i \in points : TRUE
    IN  IF ok
        THEN [ok |-> TRUE, neg |-> signed /\ t[1] = "-",
              mant |-> DigitsValue(digs), dec |-> Len(u) - p]
        ELSE [ok |-> FALSE, neg |-> FALSE, mant |-> 0, dec |-> 0]

\* n / d to the nearest integer, for n >= 0 and d > 0
RoundDiv(n, d) == (2 * n + d) \div (2 * d)

\* amount / rate as the f-string shows it with prec decimals: units of 10^-prec
Quotient(amount, f, prec) ==
    LET q == RoundDiv(amount * Pow10(f.dec + prec), f.mant)
    IN  IF f.neg THEN 0 - q ELSE q

(***************************************************************************)
(* The fetched page: what the extraction returns for the rate table, one   *)
(* record per table row, a field left out when its selector matched        *)
(* nothing.  The currency of a row is fixed by its position.               *)
(***************************************************************************)
CurName == <<"USD", "JPY", "EUR", "GBP">>

\* Test.py schema: 幣別, 本行即期買入, 本行即期賣出
BodiesF ==
    { <<T_31_00, T_31_50>>, <<T_31_00, T_1234_5>>, <<EMPTY, EMPTY>>,
      <<NaN, NaN>>, <<T_31_00, EMPTY>>, <<EMPTY, T_31_50>>, <<DASH, DASH>>,
      <<T_31_00, T_ZERO>>, <<T_31_00, NaN>> }

\* main.py schema: 幣別, 現金買入, 現金賣出, 即期買入, 即期賣出
BodiesG ==
    { <<T_30_50, T_31_90, T_31_00, T_31_50>>, <<DASH, DASH, T_31_00, T_31_50>>,
      <<DASH, DASH, DASH, DASH>>, <<T_30_50, T_31_90, T_31_00, DASH>>,
      <<T_30_50, T_31_90, T_31_00, T_1234_5>>, <<T_30_50, T_31_90, T_31_00, T_ZERO>>,
      <<T_30_50, T_31_90, T_31_00, EMPTY>>, <<T_30_50, T_31_90, T_31_00, NaN>>,
      <<NaN, NaN, T_31_00, T_31_50>>, <<DASH, DASH, DASH, T_SPDASH>> }

RowF(i, b) == [cur |-> CurName[i], buy |-> b[1], sell |-> b[2]]

RowG(i, b) ==
    [cur |-> CurName[i], cashBuy |-> b[1], cashSell |-> b[2],
     buy |-> b[3], sell |-> b[4]]

SeqsUpTo(S, n) == UNION {[1..k -> S] : k \in 0..n}

PagesF == {[i \in 1..Len(bs) |-> RowF(i, bs[i])] : bs \in SeqsUpTo(BodiesF, MaxRows)}

PagesG == {[i \in 1..Len(bs) |-> RowG(i, bs[i])] : bs \in SeqsUpTo(BodiesG, MaxRows)}

\* pd.DataFrame(list of dicts): a column exists when some record has the key
HasColumn(data, col) == \E i \in 1..Len(data) : data[i][col] # NaN

(***************************************************************************)
(* @st.cache_data(ttl=600): the decorated function's result is kept with   *)
(* the time it was stored; a call is served from the entry while the entry *)
(* is younger than the TTL, and otherwise runs the function and stores     *)
(* what it returns.  A call that raises stores nothing.                    *)
(***************************************************************************)
\* a TTL of half the time
TTL_Half == 600 \div 2

TTL == 600

NoCache == [has |-> FALSE, df |-> <<>>, t |-> 0]

Fresh(c, t) == c.has /\ t - c.t < TTL

\* a cache that does not keep an empty result
Store_SkipEmpty(res, t) ==
    IF res.ok /\ res.val # <<>> THEN [has |-> TRUE, df |-> res.val, t |-> t]
    ELSE NoCache

\* what the cache holds after the function has returned (res.ok) or raised
Store(res, t) ==
    IF res.ok THEN [has |-> TRUE, df |-> res.val, t |-> t] ELSE NoCache

\* one call of the decorated function at time t; res is what its body would do
CachedCall(c, t, res) ==
    IF Fresh(c, t)
    THEN [cache |-> c, ok |-> TRUE, val |-> c.df,
          log |-> [had |-> TRUE, age |-> t - c.t, fetched |-> FALSE, ok |-> TRUE]]
    ELSE [cache |-> Store(res, t), ok |-> res.ok, val |-> res.val,
          log |-> [had |-> c.has, age |-> IF c.has THEN t - c.t ELSE 0,
                   fetched |-> TRUE, ok |-> res.ok]]

\* st.cache_data.clear()
Clear(c) == NoCache

(***************************************************************************)
(* What one run of a dashboard script leaves on the page.                  *)
(*   msgs      the message boxes shown, in order                           *)
(*   escaped   the exception that ended the script uncaught ("" if none)   *)
(*   calls     the calls of the cached function in this interaction        *)
(*   df        what the cached function returned                          *)
(*   tradable  the rows behind the currency selector                      *)
(***************************************************************************)
NoRow == [has |-> FALSE]

NoResult == [shown |-> FALSE, val |-> 0, prec |-> 0]

BlankView ==
    [ran |-> FALSE, pressed |-> FALSE, rerun |-> FALSE, button |-> FALSE,
     calls |-> <<>>, msgs |-> <<>>, escaped |-> "",
     tableShown |-> FALSE, table |-> <<>>,
     selectorShown |-> FALSE, options |-> <<>>,
     df |-> <<>>, tradable |-> <<>>,
     amount |-> 0, selected |-> NoRow, result |-> NoResult]

Currencies(rows) == [i \in 1..Len(rows) |-> rows[i].cur]

\* st.selectbox: the option the user picked, the first one when the pick is
\* not among the options
Picked(options, choice) == IF choice <= Len(options) THEN choice ELSE 1

\* df[df['幣別'] == currency]
WithCurrency(rows, currency) == SelectSeq(rows, LAMBDA r : r.cur = currency)

(***************************************************************************)
(* Dashboard F: src/Lesson7_1/Test.py                                      *)
(***************************************************************************)
\* .replace('', '暫停交易').fillna('暫停交易')
NormalizeF(v) == IF v = EMPTY \/ v = NaN THEN PAUSED ELSE v

\* the fetch without its filter
FilterF_Keep(df) == df

\* df[~((buy == '暫停交易') & (sell == '暫停交易'))]
FilterF(df) == SelectSeq(df, LAMBDA r : ~(r.buy = PAUSED /\ r.sell = PAUSED))

\* the body of fetch_exchange_rates: siteOk is whether crawler.arun and
\* json.loads went through, data is the parsed extraction
FetchF(siteOk, data) ==
    IF ~siteOk THEN [ok |-> FALSE, val |-> <<>>, exc |-> "FetchError"]
    ELSE IF data = <<>> THEN [ok |-> TRUE, val |-> <<>>, exc |-> ""]
    ELSE IF ~HasColumn(data, "buy") \/ ~HasColumn(data, "sell")
         THEN [ok |-> FALSE, val |-> <<>>, exc |-> "KeyError"]
    ELSE [ok |-> TRUE, exc |-> "",
          val |-> FilterF([i \in 1..Len(data) |->
                     [data[i] EXCEPT !.buy = NormalizeF(@), !.sell = NormalizeF(@)]])]

\* df[(buy != '暫停交易') | (sell != '暫停交易')]
TradableF(df) == SelectSeq(df, LAMBDA r : r.buy # PAUSED \/ r.sell # PAUSED)

\* the conversion block of main(): messages and result for the selected row
ConvertF(amount, sell_rate) ==
    IF sell_rate # PAUSED
    THEN LET f == ParseFloat(sell_rate)
         IN  IF ~f.ok THEN [msg |-> "err_format", result |-> NoResult]
             ELSE IF f.mant = 0 THEN [msg |-> "err_exception", result |-> NoResult]
             ELSE [msg |-> "success",
                   result |-> [shown |-> TRUE, val |-> Quotient(amount, f, 4),
                               prec |-> 4]]
    ELSE [msg |-> "warn_paused", result |-> NoResult]

\* main() from the st.info line on, the update button not pressed
RunF(c, t, amount, choice, siteOk, data) ==
    LET call == CachedCall(c, t, FetchF(siteOk, data))
        base == [BlankView EXCEPT !.ran = TRUE, !.button = TRUE,
                                  !.calls = <<call.log>>, !.amount = amount]
        df == call.val
        tradable_df == TradableF(df)
        sel == Picked(tradable_df, choice)
        selected_row == WithCurrency(tradable_df, tradable_df[sel].cur)[1]
        conv == ConvertF(amount, selected_row.sell)
        withTable == [base EXCEPT !.df = df, !.tableShown = TRUE, !.table = df,
                                  !.tradable = tradable_df]
    IN  [cache |-> call.cache,
         view |->
           IF ~call.ok
           THEN [base EXCEPT !.msgs = <<"info_time", "err_exception">>]
           ELSE IF df = <<>>
           THEN [base EXCEPT !.msgs = <<"info_time", "err_no_data">>]
           ELSE IF tradable_df = <<>>
           THEN [withTable EXCEPT !.msgs = <<"info_time", "warn_no_tradable">>]
           ELSE [withTable EXCEPT
                   !.msgs = <<"info_time", conv.msg>>,
                   !.selectorShown = TRUE,
                   !.options = Currencies(tradable_df),
                   !.selected = [has |-> TRUE, row |-> selected_row],
                   !.result = conv.result]]

(***************************************************************************)
(* Dashboard G: src/Lesson7_1/main.py                                      *)
(***************************************************************************)
\* the body of get_rates: pd.DataFrame(eval(result.extracted_content))
FetchG(siteOk, data) ==
    IF ~siteOk THEN [ok |-> FALSE, val |-> <<>>, exc |-> "FetchError"]
    ELSE [ok |-> TRUE, val |-> data, exc |-> ""]

\* a selector filter that keeps a row when either spot rate is not "-"
TradableG_EitherRate(rates) ==
    SelectSeq(rates, LAMBDA r :
        \/ IF r.buy = NaN THEN TRUE ELSE Strip(r.buy) # DASH
        \/ IF r.sell = NaN THEN TRUE ELSE Strip(r.sell) # DASH)

\* rates[rates["即期賣出"].str.strip() != "-"]: .str.strip() leaves NaN as NaN
TradableG(rates) ==
    SelectSeq(rates, LAMBDA r : IF r.sell = NaN THEN TRUE ELSE Strip(r.sell) # DASH)

\* the try / except block of col1
ConvertG(amount, rate) ==
    IF rate = NaN THEN [msg |-> "warn_paused", result |-> NoResult]
    ELSE LET f == ParseFloat(RemoveCommas(rate))
         IN  IF ~f.ok \/ f.mant = 0
             THEN [msg |-> "warn_paused", result |-> NoResult]
             ELSE [msg |-> "success",
                   result |-> [shown |-> TRUE, val |-> Quotient(amount, f, 2),
                               prec |-> 2]]

\* lambda x: x if x.strip() != "-" else "暫停交易"
ShowValue(x) == IF Strip(x) # DASH THEN x ELSE PAUSED

RateColumns == <<"cashBuy", "cashSell", "buy", "sell">>

\* the first exception of the col2 loop over the four rate columns, "" if none
RECURSIVE ShowError(_, _)
ShowError(rates, k) ==
    IF k > Len(RateColumns) THEN ""
    ELSE IF ~HasColumn(rates, RateColumns[k]) THEN "KeyError"
    ELSE IF \E i \in 1..Len(rates) : rates[i][RateColumns[k]] = NaN
         THEN "AttributeError"
    ELSE ShowError(rates, k + 1)

\* col2: every rate column rewritten, then show[show["即期賣出"] != "-"]
ShowTable(rates) ==
    SelectSeq([i \in 1..Len(rates) |->
                 [rates[i] EXCEPT !.cashBuy = ShowValue(@), !.cashSell = ShowValue(@),
                                  !.buy = ShowValue(@), !.sell = ShowValue(@)]],
              LAMBDA r : r.sell # DASH)

\* the script from get_rates() on, the update button not pressed
RunG(c, t, amount, choice, siteOk, data) ==
    LET call == CachedCall(c, t, FetchG(siteOk, data))
        base == [BlankView EXCEPT !.ran = TRUE, !.calls = <<call.log>>,
                                  !.amount = amount]
        rates == call.val
        tradable == TradableG(rates)
        withSel == [base EXCEPT !.df = rates, !.tradable = tradable,
                                !.selectorShown = TRUE,
                                !.options = Currencies(tradable)]
        sel == Picked(tradable, choice)
        row == WithCurrency(tradable, tradable[sel].cur)[1]
        conv == ConvertG(amount, row.sell)
        col1 == [withSel EXCEPT !.selected = [has |-> TRUE, row |-> row],
                                !.msgs = <<conv.msg>>, !.result = conv.result,
                                !.button = TRUE]
        exc == ShowError(rates, 1)
    IN  [cache |-> call.cache,
         view |->
           IF ~call.ok THEN [base EXCEPT !.escaped = "FetchError"]
           ELSE IF ~HasColumn(rates, "sell")
           THEN [base EXCEPT !.df = rates, !.escaped = "KeyError"]
           ELSE IF tradable = <<>>
           THEN [withSel EXCEPT !.escaped = "IndexError"]
           ELSE IF exc # ""
           THEN [col1 EXCEPT !.escaped = exc]
           ELSE [col1 EXCEPT !.tableShown = TRUE, !.table = ShowTable(rates)]]

(***************************************************************************)
(* The print loop of src/Lesson7/Lesson7_3.py                              *)
(***************************************************************************)
T_NAME == <<"n">>
T_SALE == <<"s">>
T_OLD == <<"o">>
T_NONE == <<"x">>      \* the default '無' of item.get

\* one record per product card; a field is NaN when its selector matched nothing
Cards ==
    {c \in [name : {NaN, T_NAME}, sale : {NaN, T_SALE}, old : {NaN, T_OLD}] :
       c.name # NaN \/ c.sale # NaN \/ c.old # NaN}

PagesL == SeqsUpTo(Cards, MaxCards)

\* dict.get(key, default)
Get(v, default) == IF v = NaN THEN default ELSE v

\* the four prints of one iteration, cut at the first missing key
PrintItem(item) ==
    IF item.name = NaN THEN [lines |-> <<>>, exc |-> "KeyError"]
    ELSE IF item.sale = NaN
    THEN [lines |-> << <<"name", item.name>>, <<"old", Get(item.old, T_NONE)>> >>,
          exc |-> "KeyError"]
    ELSE [lines |-> << <<"name", item.name>>, <<"old", Get(item.old, T_NONE)>>,
                       <<"sale", item.sale>>, <<"rule">> >>,
          exc |-> ""]

(***************************************************************************)
(* The state machine                                                       *)
(***************************************************************************)
\* st.number_input: the minimum of each dashboard and one more amount (one step
\* of 100.0 in Test.py, the default 1000 in main.py)
Amounts(a) == IF a = "F" THEN {0, 100} ELSE {1, 1000}

Pages(a) == IF a = "F" THEN PagesF ELSE IF a = "G" THEN PagesG ELSE PagesL

Init ==
    /\ app \in {"F", "G", "L"}
    /\ page \in Pages(app)
    /\ cache = NoCache
    /\ now = 0
    /\ view = BlankView
    /\ idx = 1
    /\ printed = <<>>
    /\ pcL = IF app = "L" THEN "loop" ELSE "off"

Dashboard == app \in {"F", "G"}

\* the script runs: the page is opened, or a widget other than the button changed
Render ==
    /\ Dashboard
    /\ \E amount \in Amounts(app), choice \in 1..MaxRows, siteOk \in BOOLEAN :
         LET r == IF app = "F" THEN RunF(cache, now, amount, choice, siteOk, page)
                  ELSE RunG(cache, now, amount, choice, siteOk, page)
         IN  /\ cache' = r.cache
             /\ view' = r.view
    /\ UNCHANGED <<app, page, now, idx, printed, pcL>>

\* Test.py: the button is the first widget of main(); the press clears the cache
\* and st.rerun() starts the script again
PressUpdateF ==
    /\ app = "F"
    /\ view.button
    /\ \E choice \in 1..MaxRows, siteOk \in BOOLEAN :
         LET r == RunF(Clear(cache), now, view.amount, choice, siteOk, page)
         IN  /\ cache' = r.cache
             /\ view' = [r.view EXCEPT !.pressed = TRUE, !.rerun = TRUE]
    /\ UNCHANGED <<app, page, now, idx, printed, pcL>>

\* main.py: the button is the last widget of col1; the script runs up to it,
\* and only then clears the cache and starts again
PressUpdateG ==
    /\ app = "G"
    /\ view.button
    /\ \E choice \in 1..MaxRows, ok1 \in BOOLEAN, ok2 \in BOOLEAN :
         LET r1 == RunG(cache, now, view.amount, choice, ok1, page)
             r2 == RunG(Clear(r1.cache), now, view.amount, choice, ok2, page)
         IN  IF r1.view.button
             THEN /\ cache' = r2.cache
                  /\ view' = [r2.view EXCEPT !.pressed = TRUE, !.rerun = TRUE,
                                             !.calls = r1.view.calls \o @]
             ELSE /\ cache' = r1.cache
                  /\ view' = [r1.view EXCEPT !.pressed = TRUE]
    /\ UNCHANGED <<app, page, now, idx, printed, pcL>>

\* time passes
Tick ==
    /\ Dashboard
    /\ now + TickStep <= MaxTicks * TickStep
    /\ now' = now + TickStep
    /\ UNCHANGED <<app, page, cache, view, idx, printed, pcL>>

\* one iteration of "for item in data"
Iterate ==
    /\ pcL = "loop"
    /\ idx <= Len(page)
    /\ LET p == PrintItem(page[idx])
       IN  /\ printed' = printed \o p.lines
           /\ pcL' = IF p.exc = "" THEN "loop" ELSE p.exc
           /\ idx' = IF p.exc = "" THEN idx + 1 ELSE idx
    /\ UNCHANGED <<app, page, cache, now, view>>

\* the loop is exhausted and main() returns
Finish ==
    /\ pcL = "loop"
    /\ idx > Len(page)
    /\ pcL' = "done"
    /\ UNCHANGED <<app, page, cache, now, view, idx, printed>>

Next == Render \/ PressUpdateF \/ PressUpdateG \/ Iterate \/ Finish

\* every script on every page of the bounds, at one instant
Spec == Init /\ [][Next]_vars

\* the dashboards over time, on the pages of at most one row
InitCache ==
    /\ app \in {"F", "G"}
    /\ page \in {p \in Pages(app) : Len(p) <= 1}
    /\ cache = NoCache
    /\ now = 0
    /\ view = BlankView
    /\ idx = 1
    /\ printed = <<>>
    /\ pcL = "off"

NextCache == Render \/ PressUpdateF \/ PressUpdateG \/ Tick

SpecCache == InitCache /\ [][NextCache]_vars

(***************************************************************************)
(* Properties                                                              *)
(***************************************************************************)
Last(s) == s[Len(s)]

Has(s, m) == \E i \in 1..Len(s) : s[i] = m

\* the fetched record of a currency
RawRow(cur) == WithCurrency(page, cur)[1]

\* the number a rate text stands for once its thousands separators are removed
Reading(text) == IF text = NaN THEN ParseFloat(<<>>) ELSE ParseFloat(RemoveCommas(text))

Positive(text) == LET f == Reading(text) IN f.ok /\ ~f.neg /\ f.mant > 0

ErrorCount(msgs) ==
    Cardinality({i \in 1..Len(msgs) :
                   msgs[i] \in {"err_exception", "err_no_data", "err_format"}})

\* C1: in each dashboard, a selected row whose sell rate reads as r > 0 once the
\* thousands separators are removed shows amount / r rounded to the display
\* precision, and no error or not-tradable message.
C1_Claim ==
    (Dashboard /\ view.selected.has
       /\ Positive(RawRow(view.selected.row.cur).sell))
    => LET f == Reading(RawRow(view.selected.row.cur).sell)
           n == view.amount * Pow10(f.dec + view.result.prec)
           d == view.result.val * f.mant - n
       IN  /\ view.result.shown
           /\ 2 * d <= f.mant /\ 2 * (0 - d) <= f.mant
           /\ Last(view.msgs) = "success"

\* C2: in each dashboard, a selected row whose sell rate is the sentinel or does
\* not read as a positive number ends the render in the not-tradable state: no
\* numeric result, and no exception out of the conversion or any other step.
C2_Claim ==
    (Dashboard /\ view.selected.has
       /\ ~Positive(RawRow(view.selected.row.cur).sell))
    => /\ Has(view.msgs, "warn_paused") \/ Has(view.msgs, "err_format")
       /\ ~view.result.shown
       /\ view.escaped = ""
       /\ ~Has(view.msgs, "err_exception")

\* the not-tradable marker of each dashboard, on a fetched field
SentinelF(v) == v = EMPTY \/ v = NaN

SentinelG(v) == v # NaN /\ Strip(v) = DASH

Sentinel(v) == IF app = "F" THEN SentinelF(v) ELSE SentinelG(v)

\* C3 as claimed: in each dashboard the selector offers exactly the rows in which
\* at least one of the spot buy and spot sell rates is not the sentinel.
C3_Claim ==
    (Dashboard /\ view.selectorShown)
    => view.options =
         Currencies(SelectSeq(page, LAMBDA r : ~Sentinel(r.buy) \/ ~Sentinel(r.sell)))

\* C3 as amended: dashboard F offers exactly the rows in which at least one of the
\* two spot rates is not its sentinel (empty or missing); dashboard G offers
\* exactly the rows whose spot sell rate is not "-", whatever the buy rate is.
C3_Tradable ==
    (Dashboard /\ view.selectorShown)
    => view.options =
         Currencies(SelectSeq(page, LAMBDA r :
            IF app = "F" THEN ~SentinelF(r.buy) \/ ~SentinelF(r.sell)
            ELSE ~SentinelG(r.sell)))

\* a G selector was shown for a page with a row that has a buy rate and a "-" sell
\* rate, and that row is not among the options
C3_Witness ==
    /\ app = "G" /\ view.selectorShown /\ view.options # <<>>
    /\ \E i \in 1..Len(page) :
         /\ ~SentinelG(page[i].buy) /\ SentinelG(page[i].sell)
         /\ ~Has(view.options, page[i].cur)

\* the data of the last run could not be fetched or parsed
FetchFailed ==
    /\ Dashboard /\ view.ran
    /\ \/ ~Last(view.calls).ok
       \/ app = "G" /\ \E k \in 1..Len(RateColumns) : ~HasColumn(view.df, RateColumns[k])

\* C4: in each dashboard a failure while fetching or parsing the rate data ends
\* the render with exactly one visible error message, never with an uncaught
\* exception, and with no table and no conversion result.
C4_Claim ==
    FetchFailed
    => /\ view.escaped = ""
       /\ ErrorCount(view.msgs) = 1
       /\ ~view.tableShown
       /\ ~view.result.shown

\* "older than the TTL of 600 seconds", as the cache tests it
Young(c, t) == c.has /\ t - c.t < 600

\* the runs of the script in a step: the clock stands still while it runs
ScriptRan == now' = now

\* C5, on the calls of an interaction: a call fetches only when there is no entry
\* or the entry is at least 600 s old, and the rerun after a press fetches.
C5_Calls ==
    /\ \A i \in 1..Len(view.calls) :
         view.calls[i].fetched => (~view.calls[i].had \/ view.calls[i].age >= 600)
    /\ (view.pressed /\ view.rerun) => Last(view.calls).fetched

\* C5, on the steps: a script run that starts with an entry younger than 600 s
\* fetches only after a press, and replaces or drops the entry only by a press.
C5_Step ==
    (ScriptRan /\ Young(cache, now))
    => /\ view'.calls[1].fetched => (view'.pressed /\ app = "F")
       /\ cache' # cache => (view'.pressed /\ view'.rerun)

\* C5: across renders, clock advances and presses of the update button, a render
\* fetches only if no cached result exists or the cached one is older than the
\* TTL of 600 s; a younger one is dropped only by a press, and the rerun after a
\* press always fetches.
C5_CacheTTL == [](C5_Calls) /\ [][C5_Step]_vars

\* a render found an entry that had outlived the TTL and fetched again
C5_Witness ==
    /\ Dashboard /\ view.ran /\ ~view.pressed
    /\ view.calls[1].had /\ view.calls[1].age >= 600 /\ view.calls[1].fetched

\* C6: in dashboard G the table shows only tradable currencies: no row whose spot
\* sell rate is the sentinel ("-", shown as '暫停交易'), and exactly the rows the
\* selector offers.
C6_Claim ==
    (app = "G" /\ view.tableShown)
    => /\ \A i \in 1..Len(view.table) :
            /\ view.table[i].sell # PAUSED
            /\ ~SentinelG(RawRow(view.table[i].cur).sell)
       /\ Currencies(view.table) = view.options

\* C7: a page with no match of the root selector gives an empty record sequence,
\* and every script that consumes it completes its run without an exception.
C7_Claim ==
    page = <<>>
    => /\ (Dashboard /\ view.ran /\ Last(view.calls).ok)
            => (view.escaped = "" /\ ~Has(view.msgs, "err_exception"))
       /\ (app = "L" /\ pcL # "loop") => pcL = "done"

\* C8: in dashboard F the tradable filter of main() leaves the data returned by
\* fetch_exchange_rates as it is, so with data to show the "no tradable currency"
\* warning never appears.
C8_SecondFilterIdentity ==
    (app = "F" /\ view.tableShown)
    => /\ view.tradable = view.df
       /\ ~Has(view.msgs, "warn_no_tradable")

\* F showed its table for a page from which the fetch had removed a row
C8_Witness ==
    /\ app = "F" /\ view.tableShown /\ view.selectorShown
    /\ Len(view.df) < Len(page)

\* C9, on the state after a run of dashboard F: a fetch that returned is in the
\* cache, empty or not; a fetch that raised left the cache empty; an empty result
\* served from the cache shows the "no data" error.
C9_Stored ==
    (app = "F" /\ view.ran)
    => LET call == Last(view.calls)
       IN  /\ (call.fetched /\ call.ok) => (cache.has /\ cache.df = view.df)
           /\ (call.fetched /\ ~call.ok) => ~cache.has
           /\ (~call.fetched /\ view.df = <<>>)
                => view.msgs = <<"info_time", "err_no_data">>

\* C9, on the steps of dashboard F: while an empty result is younger than 600 s a
\* render without a press keeps it, does not fetch and shows the "no data" error;
\* with nothing in the cache the run fetches.
C9_Step ==
    (app = "F" /\ ScriptRan)
    => /\ (Young(cache, now) /\ cache.df = <<>> /\ ~view'.pressed)
            => /\ cache' = cache
               /\ ~Last(view'.calls).fetched
               /\ view'.msgs = <<"info_time", "err_no_data">>
       /\ ~cache.has => Last(view'.calls).fetched

\* C9: in dashboard F a fetch that completes with zero usable rows is cached like
\* any other result and served until the TTL expires or the button is pressed; a
\* fetch that raises stores nothing and the next render fetches again.
C9_EmptyCached == [](C9_Stored) /\ [][C9_Step]_vars

\* F served an empty result from the cache, for a page that had a row
C9_Witness ==
    /\ app = "F" /\ view.ran /\ page # <<>>
    /\ cache.has /\ cache.df = <<>>
    /\ ~Last(view.calls).fetched
    /\ Has(view.msgs, "err_no_data")

====
